---- MODULE Spec2Model ----
(***************************************************************************)
(* A model of ibis/backends/dask/executor.py: the translation rules of the *)
(* Dask executor (limit, reset-index, join, filter, sort, argmin/argmax,   *)
(* correlation/covariance, grouped aggregation, sub-queries), the plan     *)
(* compiler and the result materializer.                                   *)
(*                                                                         *)
(* A dd.DataFrame is a non-empty sequence of partitions; a partition (a    *)
(* pd.DataFrame) is a sequence of rows; a row is a record of its columns.  *)
(* Each group of rules has its own specification (SpecLimit, SpecArg, ...),*)
(* which leaves the variables of the other groups untouched.               *)
(***************************************************************************)
EXTENDS Integers, Sequences, FiniteSets, TLC

VARIABLES
    lparts,   \* limit machine: the parent dd.DataFrame
    largs,    \* limit machine: the n and offset handed to the rule
    lout,     \* limit machine: the frame the rule returned
    lpc,      \* limit machine: "input" | "limited" | "indexed" | "joined"
    aparts,   \* argmin/argmax machine: the frame handed to agg
    aop,      \* argmin/argmax machine: method, where, and the pandas in use
    apartials,\* argmin/argmax machine: the partial frames of the reduction
    ares,     \* argmin/argmax machine: what agg returned or raised
    apc,      \* argmin/argmax machine: "input" | "chunked" | "done" | "batch"
    xres,     \* execute machine: what compile returned
    xschema,  \* execute machine: node.schema, one dtype per column
    xorig,    \* execute machine: the shape of the original expression
    xout,     \* execute machine: what execute returned or raised
    xpc,      \* execute machine: "input" | "done"
    ptable,   \* pipeline machine: the table scanned
    pdf,      \* pipeline machine: the frame the last rule returned
    pargs,    \* pipeline machine: predicates, keys, n and offset of the rules
    pna,      \* pipeline machine: the na_position handed to sort_values
    pout,     \* pipeline machine: what the last rule returned or raised
    ppc,      \* pipeline machine: "table" | "filtered" | "sorted" | "limited" | "failed"
    gparts,   \* aggregation machine: the parent frame
    gop,      \* aggregation machine: groups and metrics of the node
    gout,     \* aggregation machine: what the rule returned or raised
    gpc,      \* aggregation machine: "input" | "done"
    cplan,    \* compile machine: the plan DAG, its root is the last node
    cresults, \* compile machine: the result of each node translated so far
    cvisits,  \* compile machine: the rule invocations, in order
    ccomputes,\* compile machine: the compute() calls, in order
    cerr,     \* compile machine: the exception compile raised
    cpc       \* compile machine: "compiling" | "compiled" | "raised" | "materialized"

limVars == <<lparts, largs, lout, lpc>>
argVars == <<aparts, aop, apartials, ares, apc>>
exeVars == <<xres, xschema, xorig, xout, xpc>>
pipeVars == <<ptable, pdf, pargs, pna, pout, ppc>>
aggVars == <<gparts, gop, gout, gpc>>
compileVars == <<cplan, cresults, cvisits, ccomputes, cerr, cpc>>

vars == <<limVars, argVars, exeVars, pipeVars, aggVars, compileVars>>

\* What each machine leaves alone.
notLim == <<argVars, exeVars, pipeVars, aggVars, compileVars>>
notArg == <<limVars, exeVars, pipeVars, aggVars, compileVars>>
notExe == <<limVars, argVars, pipeVars, aggVars, compileVars>>
notPipe == <<limVars, argVars, exeVars, aggVars, compileVars>>
notAgg == <<limVars, argVars, exeVars, pipeVars, compileVars>>
notCompile == <<limVars, argVars, exeVars, pipeVars, aggVars>>

(***************************************************************************)
(* Bounds of the model                                                     *)
(***************************************************************************)
MaxRows == 3
MaxParts == 3
MaxN == 3
MaxOffset == 4
MaxArgRows == 3
MaxArgParts == 3
MaxKey == 2
MaxExeRows == 2
MaxExeCols == 2
MaxExeParts == 2
MaxPipeParts == 2
MaxPipeN == 2
MaxPipeOffset == 1
MaxAggRows == 2
MaxAggParts == 2
MaxNodes == 3

(***************************************************************************)
(* Generic helpers                                                         *)
(***************************************************************************)
Min(x, y) == IF x <= y THEN x ELSE y
Max(x, y) == IF x >= y THEN x ELSE y

RECURSIVE Flatten(_)
\* dd.DataFrame.compute(): the partitions concatenated in partition order.
Flatten(parts) ==
    IF parts = <<>> THEN <<>> ELSE Head(parts) \o Flatten(Tail(parts))

RECURSIVE RowsBefore(_, _)
\* Number of rows in the partitions before partition p.
RowsBefore(parts, p) ==
    IF p <= 1 THEN 0 ELSE RowsBefore(parts, p - 1) + Len(parts[p - 1])

RECURSIVE SplitsInto(_, _)
\* Every way to cut the row sequence s into exactly k contiguous partitions,
\* empty partitions included (Dask partitions may hold no row).
SplitsInto(s, k) ==
    IF k = 1 THEN {<<s>>}
    ELSE UNION { { <<SubSeq(s, 1, i)>> \o rest :
                     rest \in SplitsInto(SubSeq(s, i + 1, Len(s)), k - 1) } :
                 i \in 0..Len(s) }

Splits(s, maxk) == UNION { SplitsInto(s, k) : k \in 1..maxk }

(***************************************************************************)
(* Scalar arguments: a literal int, None, or a one-cell pd.DataFrame       *)
(***************************************************************************)
PyNone == [kind |-> "none", val |-> 0]
PyInt(v) == [kind |-> "int", val |-> v]
PyFrame(cell) == [kind |-> "frame", cell |-> cell]

\* isinstance(x, pd.DataFrame) => x.iat[0, 0]
Unwrap(x) == IF x.kind = "frame" THEN x.cell ELSE x

NoArgs == [n |-> PyNone, offset |-> PyInt(0)]

PipeNoArgs == [predicates |-> <<>>, keys |-> <<>>, n |-> PyNone, offset |-> PyInt(0)]

(***************************************************************************)
(* Outcomes: a returned value or a raised exception                        *)
(***************************************************************************)
Ok(v) == [ok |-> TRUE, val |-> v]
Raise(e) == [ok |-> FALSE, exc |-> e]
NotRun == [ok |-> FALSE, exc |-> "not run"]

(***************************************************************************)
(* Row identity                                                            *)
(***************************************************************************)
\* The id column numbered within each partition instead of across the frame.
add_partition_local_column(df, col_name, set_as_index) ==
    [p \in 1..Len(df) |->
        [j \in 1..Len(df[p]) |->
            [row |-> df[p][j], col |-> col_name, id |-> j - 1,
             index |-> set_as_index]]]

\* helpers.add_globally_consecutive_column: assign 1 to a new column, replace
\* it by its cumulative sum over the whole frame minus 1, and (set_as_index)
\* make it the index.  The partition structure is kept.
add_globally_consecutive_column(df, col_name, set_as_index) ==
    [p \in 1..Len(df) |->
        [j \in 1..Len(df[p]) |->
            [row |-> df[p][j],
             col |-> col_name,
             id |-> RowsBefore(df, p) + j - 1,
             index |-> set_as_index]]]

(***************************************************************************)
(* Limit                                                                   *)
(***************************************************************************)
\* Series.between(lo, hi): inclusive on both sides.
between(x, lo, hi) == lo <= x /\ x <= hi

\* limit_df with an exclusive-style slip: the window is one row too long.
limit_df_LongWindow(df, col, n, offset) ==
    LET off == Unwrap(offset)
        lim == Unwrap(n)
    IN  IF lim.kind = "none"
        THEN SelectSeq(df, LAMBDA r : r.id >= off.val)
        ELSE SelectSeq(df, LAMBDA r : between(r.id, off.val, off.val + lim.val))

\* limit_df: one partition df carrying the id column col.
limit_df(df, col, n, offset) ==
    LET off == Unwrap(offset)
        lim == Unwrap(n)
    IN  IF lim.kind = "none"
        THEN SelectSeq(df, LAMBDA r : r.id >= off.val)
        ELSE SelectSeq(df, LAMBDA r : between(r.id, off.val, off.val + lim.val - 1))

\* .drop(columns=[name]) on one partition.
DropIdColumn(part) == [j \in 1..Len(part) |-> part[j].row]

\* DaskExecutor.visit(PandasLimit)
visit_PandasLimit(parent, n, offset) ==
    LET name == "limit"
        df == add_globally_consecutive_column(parent, name, FALSE)
    IN  [p \in 1..Len(df) |-> DropIdColumn(limit_df(df[p], name, n, offset))]

\* DaskExecutor.visit(PandasResetIndex)
visit_PandasResetIndex(parent) ==
    add_globally_consecutive_column(parent, "_index", TRUE)

\* DaskExecutor.visit(PandasJoin): df is what the single-batch join rule
\* (super().visit) returned.
visit_PandasJoin(df) ==
    add_globally_consecutive_column(df, "_index", TRUE)

(***************************************************************************)
(* ArgMin / ArgMax                                                         *)
(***************************************************************************)
\* NaN/None in a column.  Real keys and values are >= 0.
Null == -1

\* The positions of s holding the extremal non-null key.
BestPositions(keys, method) ==
    { i \in 1..Len(keys) :
        /\ keys[i] # Null
        /\ \A j \in 1..Len(keys) :
              keys[j] # Null =>
                  IF method = "argmax" THEN keys[j] <= keys[i]
                                       ELSE keys[j] >= keys[i] }

MinOf(S) == CHOOSE x \in S : \A y \in S : x <= y

\* Series.argmin() / Series.argmax() (skipna): the 0-based position of the
\* first extremal non-null key.  An empty series raises ValueError; a series
\* of nulls only gives -1 or raises, depending on the pandas in use (allNa).
series_argminmax(keys, method, allNa) ==
    IF Len(keys) = 0 THEN Raise("ValueError")
    ELSE IF BestPositions(keys, method) = {}
         THEN IF allNa = "minus1" THEN Ok(-1) ELSE Raise("ValueError")
         ELSE Ok(MinOf(BestPositions(keys, method)) - 1)

KeyCol(df) == [j \in 1..Len(df) |-> df[j].k]

\* argminmax_chunk: df[[keycol, valcol]].iloc[idx : idx + 1]
argminmax_chunk(df, method, allNa) ==
    LET idx == series_argminmax(KeyCol(df), method, allNa)
    IN  IF ~idx.ok THEN idx
        ELSE IF idx.val < 0 THEN Ok(<<>>)     \* iloc[-1:0] is empty
        ELSE Ok(<<[k |-> df[idx.val + 1].k, v |-> df[idx.val + 1].v]>>)

\* argminmax_aggregate: df[valcol].iloc[idx]
argminmax_aggregate(df, method, allNa) ==
    LET idx == series_argminmax(KeyCol(df), method, allNa)
    IN  IF ~idx.ok THEN idx
        ELSE IF idx.val < 0 THEN Ok(df[Len(df)].v)   \* iloc[-1]: the last row
        ELSE Ok(df[idx.val + 1].v)

\* df.where(df[where.name]) on one partition: rows whose mask is false are
\* replaced by nulls.
where_df(df, where) ==
    IF where = "none" THEN df
    ELSE [j \in 1..Len(df) |->
            IF df[j].w THEN df[j] ELSE [k |-> Null, v |-> Null, w |-> FALSE]]

\* agg(df) for a pd.DataFrame (the else branch of DaskExecutor.visit(ArgMin |
\* ArgMax)).
agg_pandas(df, op) ==
    argminmax_aggregate(where_df(df, op.where), op.method, op.allNa)

\* The chunk phase of dd.DataFrame.reduction: one partial per partition.
ChunkAll(parts, op) ==
    [p \in 1..Len(parts) |->
        argminmax_chunk(where_df(parts[p], op.where), op.method, op.allNa)]

AnyRaised(outs) == \E p \in 1..Len(outs) : ~outs[p].ok
FirstRaised(outs) ==
    outs[MinOf({ p \in 1..Len(outs) : ~outs[p].ok })]
Vals(outs) == [p \in 1..Len(outs) |-> outs[p].val]

(***************************************************************************)
(* Result materializer: DaskExecutor.execute                               *)
(***************************************************************************)
\* A frame handed back by compile: kind "pd" (pd.DataFrame), "dd"
\* (dd.DataFrame) or "other"; ncols columns; parts, its partitions, each a
\* sequence of rows, each row a sequence of ncols native cells.
NRows(frame) == Len(Flatten(frame.parts))

\* pd.DataFrame.empty: some axis has length 0.
IsEmptyFrame(frame) == NRows(frame) = 0 \/ frame.ncols = 0

\* PandasData.convert_table(result, schema): every cell of column c becomes a
\* value of dtype schema[c]; rows and columns are kept.
convert_table(rows, schema) ==
    [i \in 1..Len(rows) |->
        [c \in 1..Len(rows[i]) |-> [dtype |-> schema[c], val |-> rows[i][c]]]]

\* result.iloc[i, c] with 0-based i and c, a negative i counting from the
\* end; IndexError outside the frame.
iloc_cell(rows, ncols, i, c) ==
    LET pos == IF i < 0 THEN i + Len(rows) ELSE i
    IN  IF 0 <= pos /\ pos + 1 <= Len(rows) /\ c + 1 <= ncols
        THEN Ok(rows[pos + 1][c + 1])
        ELSE Raise("IndexError")

\* result.iloc[:, c]: the column at 0-based position c.
iloc_column(rows, ncols, c) ==
    IF c + 1 <= ncols
    THEN Ok([i \in 1..Len(rows) |-> rows[i][c + 1]])
    ELSE Raise("IndexError")

\* execute with the scalar cell taken from the last row instead of row 0.
execute_LastRow(result, schema, original) ==
    IF result.kind = "pd" /\ ~IsEmptyFrame(result) THEN Raise("AssertionError")
    ELSE IF result.kind = "other" THEN Raise("AssertionError")
    ELSE LET rows == convert_table(Flatten(result.parts), schema)
         IN  IF original = "scalar"
             THEN iloc_cell(rows, result.ncols, Len(rows) - 1, 0)
             ELSE IF original = "columnar"
             THEN iloc_column(rows, result.ncols, 0)
             ELSE IF original = "value_other" THEN Raise("TypeError")
             ELSE Ok(rows)

\* DaskExecutor.execute after compile returned result.  original is
\* "scalar" | "columnar" | "value_other" (an ops.Value of another shape) |
\* "relation" (not an ops.Value).
execute(result, schema, original) ==
    IF result.kind = "pd" /\ ~IsEmptyFrame(result) THEN Raise("AssertionError")
    ELSE IF result.kind = "other" THEN Raise("AssertionError")
    ELSE LET rows == convert_table(Flatten(result.parts), schema)
         IN  IF original = "scalar"
             THEN iloc_cell(rows, result.ncols, 0, 0)
             ELSE IF original = "columnar"
             THEN iloc_column(rows, result.ncols, 0)
             ELSE IF original = "value_other" THEN Raise("TypeError")
             ELSE Ok(rows)

(***************************************************************************)
(* Filter and Sort                                                         *)
(***************************************************************************)
\* A predicate column: the boolean series row[col] > bound, false on a null.
PredHolds(pred, row) == row[pred.col] # Null /\ row[pred.col] > pred.bound

RECURSIVE ReduceAnd(_, _)
\* reduce(operator.and_, predicates), evaluated on one row.
ReduceAnd(predicates, row) ==
    IF Len(predicates) = 1 THEN PredHolds(predicates[1], row)
    ELSE ReduceAnd(SubSeq(predicates, 1, Len(predicates) - 1), row)
            /\ PredHolds(predicates[Len(predicates)], row)

RECURSIVE ReduceOr(_, _)
ReduceOr(predicates, row) ==
    IF Len(predicates) = 1 THEN PredHolds(predicates[1], row)
    ELSE ReduceOr(SubSeq(predicates, 1, Len(predicates) - 1), row)
            \/ PredHolds(predicates[Len(predicates)], row)

\* The Filter rule with the predicates joined by "or".
visit_Filter_Or(parent, predicates) ==
    IF predicates # <<>>
    THEN [p \in 1..Len(parent) |->
            SelectSeq(parent[p], LAMBDA r : ReduceOr(predicates, r))]
    ELSE parent

\* DaskExecutor.visit(Filter): parent.loc[pred].reset_index(drop=True); the
\* mask is applied partition by partition.
visit_Filter(parent, predicates) ==
    IF predicates # <<>>
    THEN [p \in 1..Len(parent) |->
            SelectSeq(parent[p], LAMBDA r : ReduceAnd(predicates, r))]
    ELSE parent

\* all(nulls_first) and any(nulls_first) over the keys of op.keys.
AllNullsFirst(keys) == \A i \in 1..Len(keys) : keys[i].nulls_first
AnyNullsFirst(keys) == \E i \in 1..Len(keys) : keys[i].nulls_first

\* Order of two cells of one sort column under sort_values: -1, 0 or 1.
\* Nulls go where na_position says, whatever the direction.
CellCmp(x, y, ascending, na_position) ==
    IF x = Null /\ y = Null THEN 0
    ELSE IF x = Null THEN (IF na_position = "first" THEN -1 ELSE 1)
    ELSE IF y = Null THEN (IF na_position = "first" THEN 1 ELSE -1)
    ELSE IF x = y THEN 0
    ELSE IF (x < y) = ascending THEN -1 ELSE 1

RECURSIVE SortKeyCmp(_, _, _, _, _)
\* Lexicographic order of two rows on their sort_key columns, from column i.
SortKeyCmp(r1, r2, ascending, na_position, i) ==
    IF i > Len(ascending) THEN 0
    ELSE LET c == CellCmp(r1.sort_key[i], r2.sort_key[i], ascending[i], na_position)
         IN  IF c # 0 THEN c
             ELSE SortKeyCmp(r1, r2, ascending, na_position, i + 1)

IsSortedBy(rows, ascending, na_position) ==
    \A i, j \in 1..Len(rows) :
        i < j => SortKeyCmp(rows[i], rows[j], ascending, na_position, 1) <= 0

\* df.sort_values(by=names, ascending, na_position): the row orders the sort
\* may produce.  Rows that tie on every key may come out in any order.
sort_values(rows, ascending, na_position) ==
    { s \in { [i \in 1..Len(rows) |-> rows[f[i]]] : f \in Permutations(1..Len(rows)) } :
        IsSortedBy(s, ascending, na_position) }

\* parent.assign(**newcols): the key columns added under temporary names.
AssignSortKeys(rows, keys) ==
    [j \in 1..Len(rows) |->
        [row |-> rows[j],
         sort_key |-> [i \in 1..Len(keys) |-> rows[j][keys[i].col]]]]

\* df.drop(names, axis=1)
DropSortKeys(rows) == [j \in 1..Len(rows) |-> rows[j].row]

\* The null placement without the check: any nulls_first flag means first.
sort_na_position_NoCheck(keys) ==
    IF AnyNullsFirst(keys) THEN Ok("first") ELSE Ok("last")

\* The null placement the Sort rule derives from op.keys, or the ValueError
\* it raises when the flags are mixed.
sort_na_position(keys) ==
    IF AllNullsFirst(keys) THEN Ok("first")
    ELSE IF ~AnyNullsFirst(keys) THEN Ok("last")
    ELSE Raise("ValueError")

\* DaskExecutor.visit(Sort).  Returns the exception raised, or na_position
\* and the row orders the global sort may produce.
visit_Sort(parent, keys) ==
    LET ascending == [i \in 1..Len(keys) |-> keys[i].ascending]
        na_position == sort_na_position(keys)
    IN  IF ~na_position.ok THEN na_position
        ELSE [ok |-> TRUE,
              na_position |-> na_position.val,
              orders |-> { DropSortKeys(s) :
                             s \in sort_values(AssignSortKeys(Flatten(parent), keys),
                                               ascending, na_position.val) }]

(***************************************************************************)
(* Aggregation                                                             *)
(***************************************************************************)
RECURSIVE SumOf(_, _)
SumOf(rows, col) ==
    IF rows = <<>> THEN 0 ELSE rows[1][col] + SumOf(Tail(rows), col)

\* A metric function (the agg closure of a reduction rule) on one batch.
ApplyMetric(fn, rows) ==
    IF fn = "count" THEN Len(rows) ELSE SumOf(rows, "x")

\* The dtype pandas infers for a metric column: from the values, or object
\* when there is no value to look at.
InferredDtype(fn, ngroups) == IF ngroups = 0 THEN "object" ELSE "int64"

\* The key of a row under groupby([col.name for col in groups.values()]).
GroupKey(row, groups) == [i \in 1..Len(groups) |-> row[groups[i].col]]

RECURSIVE TupleLess(_, _)
TupleLess(s, t) ==
    IF s = <<>> THEN FALSE
    ELSE s[1] < t[1] \/ (s[1] = t[1] /\ TupleLess(Tail(s), Tail(t)))

RECURSIVE SortedTuples(_)
\* The distinct group keys in ascending order (groupby sorts its keys).
SortedTuples(S) ==
    IF S = {} THEN <<>>
    ELSE LET m == CHOOSE x \in S : \A y \in S : y = x \/ TupleLess(x, y)
         IN  <<m>> \o SortedTuples(S \ {m})

\* The template with the dtype left to inference from the values.
metric_meta_Inferred(metric, groups, ngroups) ==
    [name |-> metric.name,
     dtype |-> InferredDtype(metric.fn, ngroups),
     index_names |-> [i \in 1..Len(groups) |-> groups[i].name]]

\* meta: the empty, typed template of one measure: a series named after the
\* metric, of the metric's declared dtype, indexed by the group names.
metric_meta(metric, groups, ngroups) ==
    [name |-> metric.name,
     dtype |-> metric.dtype,
     index_names |-> [i \in 1..Len(groups) |-> groups[i].name]]

\* DaskExecutor.visit(PandasAggregate).  groups: name -> column of parent;
\* metrics: name -> metric function and declared dtype.  Without groups each
\* metric is applied to the whole frame and the results make one row; with
\* groups each metric is applied per group under a typed empty meta, the
\* measures are concatenated, the index is reset and the group columns take
\* their declared names.
visit_PandasAggregate(parent, groups, metrics) ==
    LET rows == Flatten(parent)
    IN  IF groups = <<>>
        THEN Ok([columns |->
                    [i \in 1..Len(metrics) |->
                        [name |-> metrics[i].name,
                         dtype |-> InferredDtype(metrics[i].fn, 1)]],
                 rows |-> << [i \in 1..Len(metrics) |->
                                 ApplyMetric(metrics[i].fn, rows)] >>])
        ELSE LET keys == SortedTuples({ GroupKey(r, groups) :
                                          r \in { rows[j] : j \in 1..Len(rows) } })
                 meta == [i \in 1..Len(metrics) |->
                             metric_meta(metrics[i], groups, Len(keys))]
             IN  Ok([columns |->
                        [i \in 1..Len(groups) |->
                            [name |-> groups[i].name, dtype |-> "int64"]]
                        \o [i \in 1..Len(metrics) |->
                               [name |-> meta[i].name, dtype |-> meta[i].dtype]],
                     rows |->
                        [g \in 1..Len(keys) |->
                            keys[g] \o [i \in 1..Len(metrics) |->
                                ApplyMetric(metrics[i].fn,
                                    SelectSeq(rows,
                                        LAMBDA r : GroupKey(r, groups) = keys[g]))]]])

(***************************************************************************)
(* Translation rules as the plan compiler sees them                        *)
(***************************************************************************)
\* DaskExecutor.visit(DatabaseTable): source.dictionary[name], or
\* UnboundExpressionError on a KeyError.
visit_DatabaseTable(bound) ==
    IF bound THEN Ok("dd.DataFrame") ELSE Raise("UnboundExpressionError")

\* The Correlation rule without its check.
visit_Correlation_NoCheck(how) == Ok("agg")

\* DaskExecutor.visit(Correlation)
visit_Correlation(how) ==
    IF how = "pop" THEN Raise("UnsupportedOperationError") ELSE Ok("agg")

\* DaskExecutor.visit(Covariance)
visit_Covariance(how) ==
    IF how = "pop" THEN Raise("UnsupportedOperationError") ELSE Ok("agg")

\* The rules that call .compute() on an argument while they translate:
\* PandasWindowFrame (table.compute()), InSubquery and PandasScalarSubquery
\* (rel.compute()).
TriggersCompute(kind) ==
    kind \in {"PandasWindowFrame", "InSubquery", "PandasScalarSubquery"}

\* The dispatch with a Sort rule that materializes its parent first.
visit_node_SortComputes(label) ==
    [computes |-> label.kind \in {"PandasWindowFrame", "InSubquery",
                                  "PandasScalarSubquery", "Sort"},
     out |-> IF label.kind = "DatabaseTable" THEN visit_DatabaseTable(label.bound)
             ELSE IF label.kind = "Sort"
                  THEN (IF sort_na_position(label.keys).ok
                        THEN Ok("dd.DataFrame") ELSE sort_na_position(label.keys))
             ELSE IF label.kind = "Correlation" THEN visit_Correlation(label.how)
             ELSE IF label.kind = "Covariance" THEN visit_Covariance(label.how)
             ELSE IF label.kind = "Filter" THEN Ok("dd.DataFrame")
             ELSE IF label.kind = "PandasScalarSubquery" THEN Ok("scalar")
             ELSE IF label.kind = "InSubquery" THEN Ok("membership")
             ELSE Ok("window frame")]

\* cls.visit(node, **kwargs): what the rule of the node's kind returns or
\* raises, and whether it computes an argument on the way.
visit_node(label) ==
    [computes |-> TriggersCompute(label.kind),
     out |-> IF label.kind = "DatabaseTable" THEN visit_DatabaseTable(label.bound)
             ELSE IF label.kind = "Sort"
                  THEN (IF sort_na_position(label.keys).ok
                        THEN Ok("dd.DataFrame") ELSE sort_na_position(label.keys))
             ELSE IF label.kind = "Correlation" THEN visit_Correlation(label.how)
             ELSE IF label.kind = "Covariance" THEN visit_Covariance(label.how)
             ELSE IF label.kind = "Filter" THEN Ok("dd.DataFrame")
             ELSE IF label.kind = "PandasScalarSubquery" THEN Ok("scalar")
             ELSE IF label.kind = "InSubquery" THEN Ok("membership")
             ELSE Ok("window frame")]

\* node.map_clear(fn) visits anything not visited yet.
Ready_AnyOrder(children, results, n) ==
    ~results[n].ok

\* node.map_clear(fn): a node is visited once, after all its children.
Ready(children, results, n) ==
    /\ ~results[n].ok
    /\ \A c \in children[n] : results[c].ok

(***************************************************************************)
(* The limit machine                                                       *)
(***************************************************************************)
\* The logical rows of the limit machine: row i of the table is LRow(i).
LRow(i) == [a |-> i, b |-> 10 * i]
LTable(len) == [i \in 1..len |-> LRow(i)]

ScalarArgs(S) == { PyInt(v) : v \in S } \cup { PyFrame(PyInt(v)) : v \in S }
LimitArgs == ScalarArgs(0..MaxN) \cup {PyNone, PyFrame(PyNone)}
OffsetArgs == ScalarArgs(0..MaxOffset)

InitLimit ==
    /\ lparts \in UNION { Splits(LTable(len), MaxParts) : len \in 0..MaxRows }
    /\ largs = NoArgs
    /\ lout = <<>>
    /\ lpc = "input"
    \* the other machines stay idle
    /\ aparts = <<<<>>>> /\ aop = [method |-> "argmax", where |-> "none", allNa |-> "raise"] /\ apartials = <<>> /\ ares = NotRun /\ apc = "idle"
    /\ xres = [kind |-> "dd", ncols |-> 0, parts |-> <<<<>>>>] /\ xschema = <<>> /\ xorig = "relation" /\ xout = NotRun /\ xpc = "idle"
    /\ ptable = <<<<>>>> /\ pdf = <<<<>>>> /\ pargs = PipeNoArgs /\ pna = "unset" /\ pout = NotRun /\ ppc = "idle"
    /\ gparts = <<<<>>>> /\ gop = [groups |-> <<>>, metrics |-> <<>>] /\ gout = NotRun /\ gpc = "idle"
    /\ cplan = [size |-> 0, children |-> <<>>, label |-> <<>>] /\ cresults = <<>> /\ cvisits = <<>> /\ ccomputes = <<>> /\ cerr = NotRun /\ cpc = "idle"

LimitStep ==
    /\ lpc = "input"
    /\ \E n \in LimitArgs, offset \in OffsetArgs :
          /\ largs' = [n |-> n, offset |-> offset]
          /\ lout' = visit_PandasLimit(lparts, n, offset)
    /\ lpc' = "limited"
    /\ UNCHANGED <<lparts, notLim>>

ResetIndexStep ==
    /\ lpc = "input"
    /\ lout' = visit_PandasResetIndex(lparts)
    /\ lpc' = "indexed"
    /\ UNCHANGED <<lparts, largs, notLim>>

JoinStep ==
    /\ lpc = "input"
    /\ lout' = visit_PandasJoin(lparts)
    /\ lpc' = "joined"
    /\ UNCHANGED <<lparts, largs, notLim>>

NextLimit == LimitStep \/ ResetIndexStep \/ JoinStep

(***************************************************************************)
(* The argmin/argmax machine                                               *)
(***************************************************************************)
ArgRow(i, key, mask) == [k |-> key, v |-> 10 * i, w |-> mask]

ArgTables ==
    UNION { { [i \in 1..len |-> ArgRow(i, keys[i], masks[i])] :
                keys \in [1..len -> 1..MaxKey], masks \in [1..len -> BOOLEAN] } :
            len \in 0..MaxArgRows }

ArgOps ==
    [method : {"argmin", "argmax"}, where : {"none", "w"},
     allNa : {"minus1", "raise"}]

InitArg ==
    /\ aparts \in UNION { Splits(t, MaxArgParts) : t \in ArgTables }
    /\ aop \in ArgOps
    /\ apartials = <<>>
    /\ ares = NotRun
    /\ apc = "input"
    \* the other machines stay idle
    /\ lparts = <<<<>>>> /\ largs = NoArgs /\ lout = <<>> /\ lpc = "idle"
    /\ xres = [kind |-> "dd", ncols |-> 0, parts |-> <<<<>>>>] /\ xschema = <<>> /\ xorig = "relation" /\ xout = NotRun /\ xpc = "idle"
    /\ ptable = <<<<>>>> /\ pdf = <<<<>>>> /\ pargs = PipeNoArgs /\ pna = "unset" /\ pout = NotRun /\ ppc = "idle"
    /\ gparts = <<<<>>>> /\ gop = [groups |-> <<>>, metrics |-> <<>>] /\ gout = NotRun /\ gpc = "idle"
    /\ cplan = [size |-> 0, children |-> <<>>, label |-> <<>>] /\ cresults = <<>> /\ cvisits = <<>> /\ ccomputes = <<>> /\ cerr = NotRun /\ cpc = "idle"

\* chunk=argminmax_chunk on every partition.
ArgChunk ==
    /\ apc = "input"
    /\ LET outs == ChunkAll(aparts, aop)
       IN  IF AnyRaised(outs)
           THEN /\ ares' = FirstRaised(outs)
                /\ apartials' = <<>>
                /\ apc' = "done"
           ELSE /\ apartials' = Vals(outs)
                /\ ares' = ares
                /\ apc' = "chunked"
    /\ UNCHANGED <<aparts, aop, notArg>>

\* combine=argminmax_chunk on the concatenation of adjacent partials i..j
\* (the tree reduction may group them in any way).
ArgCombine ==
    /\ apc = "chunked"
    /\ \E i, j \in 1..Len(apartials) :
          /\ i <= j
          /\ Len(apartials) > 1
          /\ LET out == argminmax_chunk(Flatten(SubSeq(apartials, i, j)),
                                        aop.method, aop.allNa)
             IN  IF ~out.ok
                 THEN /\ ares' = out
                      /\ apartials' = <<>>
                      /\ apc' = "done"
                 ELSE /\ apartials' = SubSeq(apartials, 1, i - 1) \o <<out.val>>
                                        \o SubSeq(apartials, j + 1, Len(apartials))
                      /\ ares' = ares
                      /\ apc' = "chunked"
    /\ UNCHANGED <<aparts, aop, notArg>>

\* aggregate=argminmax_aggregate on the concatenation of what is left.
ArgAggregate ==
    /\ apc = "chunked"
    /\ ares' = argminmax_aggregate(Flatten(apartials), aop.method, aop.allNa)
    /\ apartials' = <<>>
    /\ apc' = "done"
    /\ UNCHANGED <<aparts, aop, notArg>>

\* The frame is a pd.DataFrame (one in-memory batch): no reduction.
ArgPandas ==
    /\ apc = "input"
    /\ Len(aparts) = 1
    /\ ares' = agg_pandas(aparts[1], aop)
    /\ apc' = "batch"
    /\ UNCHANGED <<aparts, aop, apartials, notArg>>

NextArg == ArgChunk \/ ArgCombine \/ ArgAggregate \/ ArgPandas

(***************************************************************************)
(* The execute machine                                                     *)
(***************************************************************************)
NativeCells == {1, 2}
Dtypes == {"int64", "float64"}

ExeTables ==
    UNION { { [ncols |-> nc, rows |-> rows] :
                rows \in [1..nr -> [1..nc -> NativeCells]] } :
            nr \in 0..MaxExeRows, nc \in 0..MaxExeCols }

ExeFrames ==
    UNION { { [kind |-> "dd", ncols |-> t.ncols, parts |-> parts] :
                parts \in Splits(t.rows, MaxExeParts) }
            \cup { [kind |-> kind, ncols |-> t.ncols, parts |-> <<t.rows>>] :
                     kind \in {"pd", "other"} } :
            t \in ExeTables }

\* The node compiled is original.to_expr().as_table(): for an ops.Value that
\* is a relation of one column, and node.schema describes the compiled frame.
Originals(ncols) ==
    IF ncols = 1 THEN {"scalar", "columnar", "value_other", "relation"}
    ELSE {"relation"}

InitExe ==
    /\ xres \in ExeFrames
    /\ xschema \in [1..xres.ncols -> Dtypes]
    /\ xorig \in Originals(xres.ncols)
    /\ xout = NotRun
    /\ xpc = "input"
    \* the other machines stay idle
    /\ lparts = <<<<>>>> /\ largs = NoArgs /\ lout = <<>> /\ lpc = "idle"
    /\ aparts = <<<<>>>> /\ aop = [method |-> "argmax", where |-> "none", allNa |-> "raise"] /\ apartials = <<>> /\ ares = NotRun /\ apc = "idle"
    /\ ptable = <<<<>>>> /\ pdf = <<<<>>>> /\ pargs = PipeNoArgs /\ pna = "unset" /\ pout = NotRun /\ ppc = "idle"
    /\ gparts = <<<<>>>> /\ gop = [groups |-> <<>>, metrics |-> <<>>] /\ gout = NotRun /\ gpc = "idle"
    /\ cplan = [size |-> 0, children |-> <<>>, label |-> <<>>] /\ cresults = <<>> /\ cvisits = <<>> /\ ccomputes = <<>> /\ cerr = NotRun /\ cpc = "idle"

Execute ==
    /\ xpc = "input"
    /\ xout' = execute(xres, xschema, xorig)
    /\ xpc' = "done"
    /\ UNCHANGED <<xres, xschema, xorig, notExe>>

NextExe == Execute

(***************************************************************************)
(* The pipeline machine: Filter, then Sort, then Limit                     *)
(***************************************************************************)
PipeRow(x, y) == [a |-> x, b |-> y]

\* The rows tables are made of: the three rows of the end-to-end example and
\* a row with a null key.
PipePool == {PipeRow(1, 10), PipeRow(2, 5), PipeRow(3, 20), PipeRow(Null, 10)}

\* Every table of distinct rows of the pool, in every row order.
PipeTables ==
    UNION { { [i \in 1..Cardinality(S) |-> f[i]] :
                f \in { g \in [1..Cardinality(S) -> S] :
                          \A i, j \in 1..Cardinality(S) : i # j => g[i] # g[j] } } :
            S \in SUBSET PipePool }

PipePredicates ==
    { <<>>,
      <<[col |-> "b", bound |-> 5]>>,
      <<[col |-> "b", bound |-> 5], [col |-> "a", bound |-> 1]>> }

SortKeys == [col : {"a", "b"}, ascending : BOOLEAN, nulls_first : BOOLEAN]

\* op.keys: no key, one key, or a key on a followed by a key on b.
PipeKeyLists ==
    {<<>>} \cup { <<k>> : k \in SortKeys }
           \cup { <<k1, k2>> : k1 \in { k \in SortKeys : k.col = "a" },
                               k2 \in { k \in SortKeys : k.col = "b" } }

InitPipe ==
    /\ ptable \in UNION { Splits(t, MaxPipeParts) : t \in PipeTables }
    /\ pdf = ptable
    /\ pargs = PipeNoArgs
    /\ pna = "unset"
    /\ pout = NotRun
    /\ ppc = "table"
    \* the other machines stay idle
    /\ lparts = <<<<>>>> /\ largs = NoArgs /\ lout = <<>> /\ lpc = "idle"
    /\ aparts = <<<<>>>> /\ aop = [method |-> "argmax", where |-> "none", allNa |-> "raise"] /\ apartials = <<>> /\ ares = NotRun /\ apc = "idle"
    /\ xres = [kind |-> "dd", ncols |-> 0, parts |-> <<<<>>>>] /\ xschema = <<>> /\ xorig = "relation" /\ xout = NotRun /\ xpc = "idle"
    /\ gparts = <<<<>>>> /\ gop = [groups |-> <<>>, metrics |-> <<>>] /\ gout = NotRun /\ gpc = "idle"
    /\ cplan = [size |-> 0, children |-> <<>>, label |-> <<>>] /\ cresults = <<>> /\ cvisits = <<>> /\ ccomputes = <<>> /\ cerr = NotRun /\ cpc = "idle"

FilterStep ==
    /\ ppc = "table"
    /\ \E predicates \in PipePredicates :
          /\ pdf' = visit_Filter(pdf, predicates)
          /\ pargs' = [pargs EXCEPT !.predicates = predicates]
    /\ ppc' = "filtered"
    /\ pout' = Ok("Filter")
    /\ UNCHANGED <<ptable, pna, notPipe>>

\* The rule raises, or returns the sorted frame; Dask keeps the number of
\* partitions and decides where the sorted rows are cut.
SortStep ==
    /\ ppc = "filtered"
    /\ \E keys \in PipeKeyLists :
          LET res == visit_Sort(pdf, keys)
          IN  /\ pargs' = [pargs EXCEPT !.keys = keys]
              /\ IF res.ok
                 THEN /\ \E s \in res.orders :
                            pdf' \in SplitsInto(s, Len(pdf))
                      /\ pna' = res.na_position
                      /\ pout' = Ok("Sort")
                      /\ ppc' = "sorted"
                 ELSE /\ pout' = res
                      /\ ppc' = "failed"
                      /\ UNCHANGED <<pdf, pna>>
    /\ UNCHANGED <<ptable, notPipe>>

PipeLimitStep ==
    /\ ppc = "sorted"
    /\ \E n \in {PyNone} \cup { PyInt(v) : v \in 0..MaxPipeN },
          offset \in { PyInt(v) : v \in 0..MaxPipeOffset } :
          /\ pdf' = visit_PandasLimit(pdf, n, offset)
          /\ pargs' = [pargs EXCEPT !.n = n, !.offset = offset]
    /\ ppc' = "limited"
    /\ pout' = Ok("Limit")
    /\ UNCHANGED <<ptable, pna, notPipe>>

NextPipe == FilterStep \/ SortStep \/ PipeLimitStep

(***************************************************************************)
(* The aggregation machine                                                 *)
(***************************************************************************)
AggValues == {1, 2}

AggTables ==
    UNION { [1..len -> [g : AggValues, x : AggValues]] : len \in 0..MaxAggRows }

AggGroups ==
    { <<>>,
      <<[name |-> "key", col |-> "g"]>>,
      <<[name |-> "key", col |-> "g"], [name |-> "key2", col |-> "x"]>> }

AggMetrics ==
    { <<[name |-> "count", fn |-> "count", dtype |-> d]>> : d \in Dtypes }
    \cup { <<[name |-> "count", fn |-> "count", dtype |-> d1],
             [name |-> "total", fn |-> "sum", dtype |-> d2]>> :
             d1 \in Dtypes, d2 \in Dtypes }

InitAgg ==
    /\ gparts \in UNION { Splits(t, MaxAggParts) : t \in AggTables }
    /\ gop \in [groups : AggGroups, metrics : AggMetrics]
    /\ gout = NotRun
    /\ gpc = "input"
    \* the other machines stay idle
    /\ lparts = <<<<>>>> /\ largs = NoArgs /\ lout = <<>> /\ lpc = "idle"
    /\ aparts = <<<<>>>> /\ aop = [method |-> "argmax", where |-> "none", allNa |-> "raise"] /\ apartials = <<>> /\ ares = NotRun /\ apc = "idle"
    /\ xres = [kind |-> "dd", ncols |-> 0, parts |-> <<<<>>>>] /\ xschema = <<>> /\ xorig = "relation" /\ xout = NotRun /\ xpc = "idle"
    /\ ptable = <<<<>>>> /\ pdf = <<<<>>>> /\ pargs = PipeNoArgs /\ pna = "unset" /\ pout = NotRun /\ ppc = "idle"
    /\ cplan = [size |-> 0, children |-> <<>>, label |-> <<>>] /\ cresults = <<>> /\ cvisits = <<>> /\ ccomputes = <<>> /\ cerr = NotRun /\ cpc = "idle"

Aggregate ==
    /\ gpc = "input"
    /\ gout' = visit_PandasAggregate(gparts, gop.groups, gop.metrics)
    /\ gpc' = "done"
    /\ UNCHANGED <<gparts, gop, notAgg>>

NextAgg == Aggregate

(***************************************************************************)
(* The compile machine: DaskExecutor.compile, then execute's compute       *)
(***************************************************************************)
KeyWith(nf) == [col |-> "a", ascending |-> TRUE, nulls_first |-> nf]

\* op.keys of a Sort node: nulls first on every key, nulls last, or mixed.
PlanSortKeys ==
    { <<KeyWith(TRUE), KeyWith(TRUE)>>, <<KeyWith(FALSE)>>,
      <<KeyWith(TRUE), KeyWith(FALSE)>> }

LeafLabels ==
    { [kind |-> "DatabaseTable", bound |-> b] : b \in BOOLEAN }

InnerLabels ==
    { [kind |-> k] : k \in {"Filter", "PandasScalarSubquery", "InSubquery",
                            "PandasWindowFrame"} }
    \cup { [kind |-> "Sort", keys |-> ks] : ks \in PlanSortKeys }
    \cup { [kind |-> k, how |-> h] :
             k \in {"Correlation", "Covariance"}, h \in {"pop", "sample"} }

\* The plans of n nodes: node i takes its arguments among the nodes before
\* it (at most two), node n is the root and every node is under the root.
RECURSIVE Under(_, _)
Under(children, S) ==
    LET more == S \cup UNION { children[n] : n \in S }
    IN  IF more = S THEN S ELSE Under(children, more)

PlanShapes(n) ==
    { ch \in [1..n -> SUBSET (1..n)] :
        /\ \A i \in 1..n : ch[i] \subseteq 1..(i - 1) /\ Cardinality(ch[i]) <= 2
        /\ Under(ch, {n}) = 1..n }

Plans ==
    UNION { { [size |-> n, children |-> ch, label |-> lb] :
                ch \in PlanShapes(n),
                lb \in [1..n -> LeafLabels \cup InnerLabels] } :
            n \in 1..MaxNodes }

WellFormed(plan) ==
    \A i \in 1..plan.size :
        (plan.children[i] = {}) <=> (plan.label[i] \in LeafLabels)

InitCompile ==
    /\ cplan \in { p \in Plans : WellFormed(p) }
    /\ cresults = [i \in 1..cplan.size |-> NotRun]
    /\ cvisits = <<>>
    /\ ccomputes = <<>>
    /\ cerr = NotRun
    /\ cpc = "compiling"
    \* the other machines stay idle
    /\ lparts = <<<<>>>> /\ largs = NoArgs /\ lout = <<>> /\ lpc = "idle"
    /\ aparts = <<<<>>>> /\ aop = [method |-> "argmax", where |-> "none", allNa |-> "raise"] /\ apartials = <<>> /\ ares = NotRun /\ apc = "idle"
    /\ xres = [kind |-> "dd", ncols |-> 0, parts |-> <<<<>>>>] /\ xschema = <<>> /\ xorig = "relation" /\ xout = NotRun /\ xpc = "idle"
    /\ ptable = <<<<>>>> /\ pdf = <<<<>>>> /\ pargs = PipeNoArgs /\ pna = "unset" /\ pout = NotRun /\ ppc = "idle"
    /\ gparts = <<<<>>>> /\ gop = [groups |-> <<>>, metrics |-> <<>>] /\ gout = NotRun /\ gpc = "idle"

\* fn(node, _, **kwargs) -> cls.visit(node, **kwargs) on a node map_clear
\* has reached; kwargs holds the results of the node's children.
Visit ==
    /\ cpc = "compiling"
    /\ \E n \in 1..cplan.size :
          /\ Ready(cplan.children, cresults, n)
          /\ LET v == visit_node(cplan.label[n])
                 call == [node |-> n,
                          kwargs |-> [c \in cplan.children[n] |-> cresults[c]]]
             IN  /\ cvisits' = Append(cvisits, call)
                 /\ ccomputes' = IF v.computes
                                 THEN Append(ccomputes, [by |-> n, at |-> Len(cvisits) + 1])
                                 ELSE ccomputes
                 /\ IF v.out.ok
                    THEN /\ cresults' = [cresults EXCEPT ![n] =
                                Ok([node |-> n, call |-> Len(cvisits) + 1,
                                    value |-> v.out.val])]
                         /\ cerr' = cerr
                         /\ cpc' = IF n = cplan.size THEN "compiled" ELSE "compiling"
                    ELSE /\ cerr' = [ok |-> FALSE, exc |-> v.out.exc, node |-> n]
                         /\ cpc' = "raised"
                         /\ UNCHANGED cresults
    /\ UNCHANGED <<cplan, notCompile>>

\* execute: result.compute() on what compile returned.
Materialize ==
    /\ cpc = "compiled"
    /\ ccomputes' = Append(ccomputes, [by |-> 0, at |-> Len(cvisits) + 1])
    /\ cpc' = "materialized"
    /\ UNCHANGED <<cplan, cresults, cvisits, cerr, notCompile>>

NextCompile == Visit \/ Materialize

(***************************************************************************)
(* Specifications: one machine runs, the others stay idle                  *)
(***************************************************************************)
SpecLimit == InitLimit /\ [][NextLimit]_vars

SpecArg == InitArg /\ [][NextArg]_vars

SpecExe == InitExe /\ [][NextExe]_vars

SpecPipe == InitPipe /\ [][NextPipe]_vars

SpecAgg == InitAgg /\ [][NextAgg]_vars

SpecCompile == InitCompile /\ [][NextCompile]_vars

(***************************************************************************)
(* Claims about the limit machine (SpecLimit)                              *)
(***************************************************************************)
LRows == Flatten(lparts)
LRowCount == Len(LRows)
LOutRows == Flatten(lout)
LN == Unwrap(largs.n)
LOffset == Unwrap(largs.offset).val

\* The rows of the logical table from position offset (0-based) onward, at
\* most count of them: what a limit selects, whatever the partitioning.
RowsFrom(rows, offset, count) ==
    SubSeq(rows, offset + 1, Min(Len(rows), offset + count))

\* C1 as stated: a limit with n given returns exactly min(n, rowCount - offset)
\* rows, a limit without n returns every row from position offset onward, and
\* the rows returned are those of the logical table, whatever its partitions.
C1_AsStated ==
    lpc = "limited" =>
        /\ LN.kind = "int" =>
              /\ Len(LOutRows) = Min(LN.val, LRowCount - LOffset)
              /\ LOutRows = RowsFrom(LRows, LOffset, LN.val)
        /\ LN.kind = "none" => LOutRows = RowsFrom(LRows, LOffset, LRowCount)

\* C1 amended: a limit with n given returns exactly
\* max(0, min(n, rowCount - offset)) rows (none when offset exceeds rowCount),
\* a limit without n returns every row from position offset onward, and the
\* rows returned are the same for every partitioning of the logical rows.
C1_LimitRows ==
    lpc = "limited" =>
        /\ LN.kind = "int" =>
              /\ Len(LOutRows) = Max(0, Min(LN.val, LRowCount - LOffset))
              /\ LOutRows = RowsFrom(LRows, LOffset, LN.val)
        /\ LN.kind = "none" => LOutRows = RowsFrom(LRows, LOffset, LRowCount)
        /\ Len(lout) = Len(lparts)

\* A limit whose window starts inside one partition and ends in the next one.
C1_Witness ==
    /\ lpc = "limited"
    /\ Len(lparts) >= 2
    /\ LN.kind = "int" /\ LN.val >= 2
    /\ LOffset >= 1
    /\ Len(LOutRows) = LN.val
    /\ Len(LOutRows) < LRowCount
    /\ \E p \in 1..(Len(lout) - 1) : lout[p] # <<>> /\ lout[p + 1] # <<>>

Ids(rows) == [j \in 1..Len(rows) |-> rows[j].id]
StrictlyIncreasing(s) == \A i, j \in 1..Len(s) : i < j => s[i] < s[j]
Unique(s) == \A i, j \in 1..Len(s) : i # j => s[i] # s[j]

\* The id column each of the three rules works with: the transient column of
\* the limit rule, the index the reset-index and join rules return.
LIdColumn ==
    IF lpc = "limited"
    THEN Ids(Flatten(add_globally_consecutive_column(lparts, "limit", FALSE)))
    ELSE Ids(LOutRows)

\* C3: for a non-empty partitioned table the row identifiers added for the
\* limit, reset-index and join rules are unique across the whole table and
\* strictly increasing when the partitions are read in their order.
C3_RowIds ==
    (lpc # "input" /\ LRowCount > 0) =>
        /\ Len(LIdColumn) = LRowCount
        /\ Unique(LIdColumn)
        /\ StrictlyIncreasing(LIdColumn)

\* A reset index over at least two non-empty partitions.
C3_Witness ==
    /\ lpc = "indexed"
    /\ \E p, q \in 1..Len(lparts) : p < q /\ lparts[p] # <<>> /\ lparts[q] # <<>>
    /\ Len(LIdColumn) >= 2

(***************************************************************************)
(* Claims about the argmin/argmax machine (SpecArg)                        *)
(***************************************************************************)
\* C2: the chunk/combine/aggregate reduction returns, for every partitioning
\* of the same logical rows into k >= 1 partitions and every association
\* order of the combine phase, the value the single-batch
\* argminmax_aggregate returns on the whole table.
C2_PartitionInvariant ==
    (apc = "done" /\ aop.where = "none") =>
        ares = agg_pandas(Flatten(aparts), aop)

\* The same with every partition holding at least one row.
C2_NonEmptyPartitions ==
    (/\ apc = "done"
     /\ aop.where = "none"
     /\ \A p \in 1..Len(aparts) : aparts[p] # <<>>) =>
        ares = agg_pandas(Flatten(aparts), aop)

(***************************************************************************)
(* Claims about the execute machine (SpecExe)                              *)
(***************************************************************************)
XRows == convert_table(Flatten(xres.parts), xschema)

\* C4 as stated: for a scalar expression execute returns the cell at row 0,
\* column 0 and fails whenever the materialized result is not exactly one row
\* and one column.
C4_AsStated ==
    (xpc = "done" /\ xorig = "scalar") =>
        /\ xout.ok => xout.val = XRows[1][1]
        /\ ~(Len(XRows) = 1 /\ xres.ncols = 1) => ~xout.ok

\* C4 amended: for a scalar expression execute fails whenever the
\* materialized result has no row; whatever it returns is the cell at row 0,
\* column 0; and a dd.DataFrame result with at least one row is not
\* rejected, however many rows it has.
C4_ScalarCell ==
    (xpc = "done" /\ xorig = "scalar") =>
        /\ Len(XRows) = 0 => ~xout.ok
        /\ xout.ok => xout.val = XRows[1][1]
        /\ (xres.kind = "dd" /\ Len(XRows) >= 1) => xout.ok

\* A scalar taken from a two-row result whose rows differ.
C4_Witness ==
    /\ xpc = "done" /\ xorig = "scalar"
    /\ xres.kind = "dd"
    /\ Len(XRows) = 2 /\ XRows[1][1] # XRows[2][1]
    /\ xout.ok

(***************************************************************************)
(* Claims about the pipeline machine (SpecPipe)                            *)
(***************************************************************************)
PKeys == pargs.keys
PAscending == [i \in 1..Len(PKeys) |-> PKeys[i].ascending]
POutRows == Flatten(pdf)
PMixed == AnyNullsFirst(PKeys) /\ ~AllNullsFirst(PKeys)
PSortRan == ppc \in {"sorted", "failed"}

\* The rows of the scanned table that satisfy every predicate.
PFiltered ==
    SelectSeq(Flatten(ptable),
              LAMBDA r : \A i \in 1..Len(pargs.predicates) :
                            PredHolds(pargs.predicates[i], r))

\* The sorted frame is ordered on its keys with the nulls at one end.
PSortedWith(na_position) ==
    /\ ppc = "sorted"
    /\ pna = na_position
    /\ IsSortedBy(AssignSortKeys(POutRows, PKeys), PAscending, na_position)

\* C5 as stated: mixed nulls_first flags raise before any sort and never give
\* a sorted table; all flags true sorts nulls first; no flag true, the empty
\* key list included, sorts nulls last.
C5_AsStated ==
    PSortRan =>
        /\ PMixed => (ppc = "failed" /\ ~pout.ok /\ pna = "unset")
        /\ (PKeys # <<>> /\ AllNullsFirst(PKeys)) => PSortedWith("first")
        /\ ~AnyNullsFirst(PKeys) => PSortedWith("last")

\* C5 amended: mixed nulls_first flags raise ValueError before any sort and
\* never give a sorted table; all flags true, which the empty key list
\* satisfies, sorts with na_position "first"; at least one key and no flag
\* true sorts with na_position "last".
C5_SortNulls ==
    PSortRan =>
        /\ PMixed => (/\ ppc = "failed" /\ pout = Raise("ValueError")
                      /\ pna = "unset" /\ pdf = visit_Filter(ptable, pargs.predicates))
        /\ AllNullsFirst(PKeys) => PSortedWith("first")
        /\ (PKeys # <<>> /\ ~AnyNullsFirst(PKeys)) => PSortedWith("last")

\* A sort on a nullable key with nulls first that moved the null row up.
C5_Witness ==
    /\ ppc = "sorted"
    /\ Len(PKeys) = 2 /\ AllNullsFirst(PKeys)
    /\ Len(POutRows) >= 3
    /\ POutRows[1].a = Null
    /\ Flatten(ptable)[1].a # Null

\* A sort whose keys carry mixed flags: the rule raised.
C5_WitnessMixed ==
    /\ ppc = "failed" /\ PMixed /\ Len(Flatten(pdf)) >= 2

ExampleRows == {PipeRow(1, 10), PipeRow(2, 5), PipeRow(3, 20)}
Range(s) == { s[i] : i \in 1..Len(s) }

\* The end-to-end example: Filter(b > 5), Sort(a asc), Limit(2, 0) over the
\* three example rows.
IsExample ==
    /\ Range(Flatten(ptable)) = ExampleRows
    /\ pargs.predicates = <<[col |-> "b", bound |-> 5]>>
    /\ PKeys = <<[col |-> "a", ascending |-> TRUE, nulls_first |-> FALSE]>>
    /\ pargs.n = PyInt(2) /\ pargs.offset = PyInt(0)

\* C10: Filter, Sort and Limit composed over a partitioned table yield the
\* first n rows, in sort-key order, of the rows that satisfy every predicate,
\* whatever the partitioning; the example yields [{a:1,b:10},{a:3,b:20}].
C10_FilterSortLimit ==
    ppc = "limited" =>
        /\ \E s \in visit_Sort(<<PFiltered>>, PKeys).orders :
              POutRows = RowsFrom(s, pargs.offset.val,
                                  IF pargs.n.kind = "none" THEN Len(s) ELSE pargs.n.val)
        /\ IsExample => POutRows = <<PipeRow(1, 10), PipeRow(3, 20)>>

\* The example run on the two-partition table of the claim.
C10_Witness ==
    /\ ppc = "limited"
    /\ IsExample
    /\ ptable = << <<PipeRow(1, 10), PipeRow(2, 5)>>, <<PipeRow(3, 20)>> >>
    /\ POutRows = <<PipeRow(1, 10), PipeRow(3, 20)>>

(***************************************************************************)
(* Claims about the aggregation machine (SpecAgg)                          *)
(***************************************************************************)
\* The columns a grouped aggregation declares: the group keys, then one
\* column per metric with its declared dtype.
DeclaredColumns ==
    [i \in 1..Len(gop.groups) |-> [name |-> gop.groups[i].name, dtype |-> "int64"]]
    \o [i \in 1..Len(gop.metrics) |->
           [name |-> gop.metrics[i].name, dtype |-> gop.metrics[i].dtype]]

CVisited == { cvisits[i].node : i \in 1..Len(cvisits) }
CVisitsOf(n) == { i \in 1..Len(cvisits) : cvisits[i].node = n }
CLabel(n) == cplan.label[n]

\* C6: translating a Correlation or Covariance node with how = "pop" raises
\* UnsupportedOperationError and yields no aggregation function; with any
\* other how the rule returns an aggregation function without raising.
C6_PopRejected ==
    \A n \in CVisited :
        CLabel(n).kind \in {"Correlation", "Covariance"} =>
            IF CLabel(n).how = "pop"
            THEN /\ cpc = "raised"
                 /\ cerr = [ok |-> FALSE, exc |-> "UnsupportedOperationError", node |-> n]
                 /\ ~cresults[n].ok
            ELSE /\ cresults[n].ok
                 /\ cresults[n].val.value = "agg"
                 /\ cpc = "raised" => cerr.node # n

\* A plan holding a population covariance and a sample correlation, both
\* translated.
C6_Witness ==
    /\ cpc = "raised"
    /\ \E n, m \in CVisited :
          /\ CLabel(n) = [kind |-> "Covariance", how |-> "pop"]
          /\ CLabel(m) = [kind |-> "Correlation", how |-> "sample"]
          /\ cresults[m].ok

\* C8: during compile each node's rule is invoked only after the rules of all
\* its children have returned, each node is translated at most once, and
\* every parent of a shared node receives the one result of that node.
C8_PostOrder ==
    \A i \in 1..Len(cvisits) :
        LET n == cvisits[i].node
        IN  /\ \A c \in cplan.children[n] :
                  /\ \E j \in 1..(i - 1) : cvisits[j].node = c
                  /\ cvisits[i].kwargs[c].ok
                  /\ cvisits[i].kwargs[c].val.node = c
                  /\ cvisits[i].kwargs[c].val.call \in CVisitsOf(c)
                  /\ cvisits[i].kwargs[c] = cresults[c]
            /\ Cardinality(CVisitsOf(n)) = 1

\* A node shared by two parents, both translated.
C8_Witness ==
    \E c, p, q \in CVisited :
        /\ p # q
        /\ c \in cplan.children[p] /\ c \in cplan.children[q]
        /\ cpc = "compiled"

ConfigError(label) ==
    \/ label.kind = "DatabaseTable" /\ ~label.bound
    \/ label.kind = "Sort" /\ AnyNullsFirst(label.keys) /\ ~AllNullsFirst(label.keys)
    \/ label.kind \in {"Correlation", "Covariance"} /\ label.how = "pop"

HasConfigError == \E n \in 1..cplan.size : ConfigError(CLabel(n))

\* C9 as stated: for a plan with a configuration error compile raises before
\* any compute has been triggered anywhere in that compilation.
C9_AsStated ==
    HasConfigError =>
        /\ cpc \notin {"compiled", "materialized"}
        /\ cpc = "raised" => ccomputes = <<>>

\* C9 amended: for a plan with a configuration error compile never returns,
\* so execute's materialization is never triggered; the rule that raises
\* computes nothing, and the only computes that precede the error are those
\* of PandasScalarSubquery, InSubquery and PandasWindowFrame nodes translated
\* earlier.
C9_ErrorBeforeMaterialize ==
    HasConfigError =>
        /\ cpc \notin {"compiled", "materialized"}
        /\ cpc = "raised" =>
              /\ ConfigError(CLabel(cerr.node))
              /\ \A k \in 1..Len(ccomputes) :
                    /\ ccomputes[k].by # 0
                    /\ ccomputes[k].by # cerr.node
                    /\ ccomputes[k].at < Len(cvisits)
                    /\ CLabel(ccomputes[k].by).kind \in
                          {"PandasScalarSubquery", "InSubquery", "PandasWindowFrame"}

\* A mixed-flag Sort above a scalar subquery: the error came after a compute.
C9_Witness ==
    /\ cpc = "raised"
    /\ CLabel(cerr.node).kind = "Sort"
    /\ ccomputes # <<>>
    /\ CLabel(ccomputes[1].by).kind = "PandasScalarSubquery"

====
